---- MODULE Spec2Model ----
(***************************************************************************)
(* Model of the schema generator of passion-os:                            *)
(*   tools/schema-generator/resolve_seed_references.py  (seed resolver)    *)
(*   tools/schema-generator/generate_all.py   (validator, seed emitter)    *)
(*                                                                         *)
(* Python values are modelled as follows.                                  *)
(*   str    a sequence of tokens; "" is << >>.  A token is a column name,  *)
(*          a punctuation mark ("=", ":", "|", "'") or an atom of text.    *)
(*   None   the value NONE.                                                *)
(*   dict   a sequence of <<key, value>> pairs with distinct keys, in      *)
(*          insertion order (Python dicts keep insertion order).           *)
(*   list   a sequence.                                                    *)
(***************************************************************************)
EXTENDS Integers, Sequences, FiniteSets, TLC

VARIABLES
    input,          \* the schema document as loaded (never written)
    schema,         \* the schema object the program works on (mutated in place)
    lookup_tables,  \* resolve_seed_references: lookup_tables
    pc,             \* position of the run
    ti,             \* index into the table loop in progress
    ri,             \* index into the record loop in progress
    errors,         \* validate_schema: the returned list (or the raised exception)
    gen_lookup,     \* generate_seeds: lookup_tables
    out,            \* generate_seeds: the INSERT statements emitted so far
    run,            \* number of the invocation of the script in progress
    first,          \* what the previous invocation of the resolver returned
    args,           \* generate_all main: the command-line flags
    exists,         \* generate_all main: SCHEMA_FILE.exists()
    today,          \* datetime.now().strftime('%Y-%m-%d') of the run
    fs,             \* the destination files and what each one holds
    fs0,            \* the destination files as the run in progress found them
    gen,            \* the generated contents: rust, ts, sql, seeds
    prev,           \* the contents the previous run generated
    val,            \* format_sql_value: the value it is called with
    literal         \* format_sql_value: the text it returned

\* the variables of generate_all's main
mvars == <<args, exists, today, fs, fs0, gen, prev>>

\* the variables of a call of format_sql_value
fvars == <<val, literal>>

vars == <<input, schema, lookup_tables, pc, ti, ri, errors, gen_lookup, out, run, first,
          mvars, fvars>>

----------------------------------------------------------------------------
(* Bounds of the model. *)

MaxRecords == 2

MaxDepRecords == 1

MaxRuns == 2

----------------------------------------------------------------------------
(* Python values. *)

NONE == <<"<None>">>

\* str(v)
PyStr(v) == IF v = NONE THEN <<"None">> ELSE v

\* bool(v) for a str or None
Truthy(v) == v # NONE /\ v # << >>

\* dict operations, insertion-ordered
DictHas(d, k) == \E i \in 1..Len(d) : d[i][1] = k

DictGet(d, k, default) ==
    IF DictHas(d, k) THEN d[CHOOSE i \in 1..Len(d) : d[i][1] = k][2] ELSE default

DictSet(d, k, v) ==
    IF DictHas(d, k)
    THEN [i \in 1..Len(d) |-> IF d[i][1] = k THEN <<k, v>> ELSE d[i]]
    ELSE Append(d, <<k, v>>)

DictDel(d, k) == SelectSeq(d, LAMBDA p : p[1] # k)

DictKeys(d) == [i \in 1..Len(d) |-> d[i][1]]

KeySet(d) == {d[i][1] : i \in 1..Len(d)}

\* sep.join(parts), parts a list of str
RECURSIVE Join(_, _)
Join(sep, parts) ==
    IF Len(parts) = 0 THEN << >>
    ELSE IF Len(parts) = 1 THEN parts[1]
    ELSE parts[1] \o sep \o Join(sep, Tail(parts))

\* s.startswith(prefix)
StartsWith(s, prefix) ==
    Len(s) >= Len(prefix) /\ SubSeq(s, 1, Len(prefix)) = prefix

\* s.replace(old, new): every non-overlapping occurrence, left to right
RECURSIVE Replace(_, _, _)
Replace(s, old, new) ==
    IF Len(s) = 0 THEN << >>
    ELSE IF StartsWith(s, old)
         THEN new \o Replace(SubSeq(s, Len(old) + 1, Len(s)), old, new)
         ELSE <<Head(s)>> \o Replace(Tail(s), old, new)

\* str(i) for a list index
IndexStr(i) == <<ToString(i)>>

----------------------------------------------------------------------------
(* resolve_seed_references.py *)

\* an identifier that also depends on the invocation (as uuid.uuid1 or uuid.uuid4 would)
uuid_per_invocation(namespace, name) ==
    <<"uuid1", ToString(run)>> \o namespace \o <<":">> \o name

\* uuid.uuid5(SEED_NAMESPACE, f"{namespace}:{name}"): a one-way hash, taken as
\* injective on the string it hashes; the result is a str no input contains.
generate_deterministic_uuid(namespace, name) ==
    <<"uuid5">> \o namespace \o <<":">> \o name

\* the table loop of the first pass
PASS1_ORDER ==
    <<"workouts", "exercise_definitions", "workout_sections", "workout_exercises">>

SeedDef(sch, table_name) == DictGet(sch.seeds, table_name, NONE)

Records(sch, table_name) == SeedDef(sch, table_name).records

\* the schema with seeds[table_name]['records'] replaced (records are mutated in place)
WithRecords(sch, table_name, recs) ==
    [sch EXCEPT !.seeds =
        DictSet(@, table_name, [SeedDef(sch, table_name) EXCEPT !.records = recs])]

\* tuple(str(record.get(k, '')) for k in unique_key)
KeyValues(unique_key, record) ==
    [k \in 1..Len(unique_key.cols) |-> PyStr(DictGet(record, unique_key.cols[k], << >>))]

\* an id assignment that derives the id also of a record that holds one
AssignIdAlways(table_name, unique_key, record, i) ==
    DictSet(record, "id",
            IF unique_key.kind = "list"
            THEN generate_deterministic_uuid(<<table_name>>,
                                             Join(<<"|">>, KeyValues(unique_key, record)))
            ELSE generate_deterministic_uuid(<<table_name>>, IndexStr(i)))

\* first pass, id assignment of one record (i is the 0-based index)
AssignId(table_name, unique_key, record, i) ==
    IF DictHas(record, "id") THEN record
    ELSE DictSet(record, "id",
            IF unique_key.kind = "list"
            THEN generate_deterministic_uuid(<<table_name>>,
                                             Join(<<"|">>, KeyValues(unique_key, record)))
            ELSE generate_deterministic_uuid(<<table_name>>, IndexStr(i)))

\* f"{key_col}={lookup_key}"
ColEquals(key_col, value) == <<key_col, "=">> \o PyStr(value)

\* the key a single-column (str) unique key is stored under
StrLookupKey(unique_key, lookup_key) == lookup_key

\* first pass, lookup entries of one record whose id is assigned
RECURSIVE AddListKeys(_, _, _, _)
AddListKeys(lookup, cols, record, k) ==
    IF k > Len(cols) THEN lookup
    ELSE LET lookup_key == DictGet(record, cols[k], NONE)
             next == IF Truthy(lookup_key)
                     THEN DictSet(lookup, ColEquals(cols[k], lookup_key),
                                  DictGet(record, "id", NONE))
                     ELSE lookup
         IN  AddListKeys(next, cols, record, k + 1)

BuildLookup(lookup, unique_key, record) ==
    IF unique_key.kind = "list" THEN AddListKeys(lookup, unique_key.cols, record, 1)
    ELSE IF unique_key.kind = "str"
    THEN LET lookup_key == DictGet(record, unique_key.cols[1], NONE)
         IN  IF Truthy(lookup_key)
             THEN DictSet(lookup, StrLookupKey(unique_key, lookup_key),
                          DictGet(record, "id", NONE))
             ELSE lookup
    ELSE lookup

\* second pass: the scan of a lookup table for a 'name=' entry; the index of the
\* first entry whose key, stripped of 'name=', equals wanted (0 when none does)
NameHit(lookup, wanted) ==
    LET hits == {n \in 1..Len(lookup) :
                    /\ StartsWith(lookup[n][1], <<"name", "=">>)
                    /\ Replace(lookup[n][1], <<"name", "=">>, << >>) = wanted}
    IN  IF hits = {} THEN 0 ELSE CHOOSE n \in hits : \A m \in hits : n <= m

\* second pass: resolve ref_field of record against lookup_tables[ref_table],
\* store the id under target, delete ref_field
ResolveByName(lookups, record, ref_field, ref_table, target) ==
    IF ~DictHas(record, ref_field) THEN record
    ELSE LET wanted == DictGet(record, ref_field, NONE)
             hit == IF DictHas(lookups, ref_table)
                    THEN NameHit(DictGet(lookups, ref_table, << >>), wanted)
                    ELSE 0
             set == IF hit # 0
                    THEN DictSet(record, target,
                                 DictGet(lookups, ref_table, << >>)[hit][2])
                    ELSE record
         IN  DictDel(set, ref_field)

\* the first section of that name, whatever its workout
SectionHitByName(ws_records, section_name, workout_id) ==
    LET hits == {n \in 1..Len(ws_records) :
                    DictGet(ws_records[n], "name", NONE) = section_name}
    IN  IF hits = {} THEN 0 ELSE CHOOSE n \in hits : \A m \in hits : n <= m

\* second pass: the join of section_name with the resolved workout_id
SectionHit(ws_records, section_name, workout_id) ==
    LET hits == {n \in 1..Len(ws_records) :
                    /\ DictGet(ws_records[n], "name", NONE) = section_name
                    /\ DictGet(ws_records[n], "workout_id", NONE) = workout_id}
    IN  IF hits = {} THEN 0 ELSE CHOOSE n \in hits : \A m \in hits : n <= m

ResolveSection(sch, record) ==
    IF ~(DictHas(record, "section_name") /\ DictHas(record, "workout_id")) THEN record
    ELSE LET section_name == DictGet(record, "section_name", NONE)
             workout_id == DictGet(record, "workout_id", NONE)
             ws_records == IF DictHas(sch.seeds, "workout_sections")
                           THEN Records(sch, "workout_sections") ELSE << >>
             hit == SectionHit(ws_records, section_name, workout_id)
             set == IF hit # 0
                    THEN DictSet(record, "section_id", DictGet(ws_records[hit], "id", NONE))
                    ELSE record
         IN  DictDel(set, "section_name")

\* one record of the workout_sections loop
ResolveSectionsRecord(lookups, record) ==
    ResolveByName(lookups, record, "workout_name", "workouts", "workout_id")

\* one record of the workout_exercises loop
ResolveExercisesRecord(sch, lookups, record) ==
    LET r1 == ResolveByName(lookups, record, "workout_name", "workouts", "workout_id")
        r2 == ResolveByName(lookups, r1, "exercise_name", "exercise_definitions",
                            "exercise_id")
    IN  ResolveSection(sch, r2)

(* The run of resolve_seed_references, one loop iteration per step. *)

ResolveStart ==
    /\ pc = "start"
    /\ IF Len(schema.seeds) = 0
       THEN pc' = "resolved" /\ ti' = 0
       ELSE pc' = "pass1" /\ ti' = 1
    /\ lookup_tables' = << >>
    /\ ri' = 0
    /\ UNCHANGED <<fvars, mvars, input, run, first, schema, errors, gen_lookup, out>>

\* for table_name in [...]: skip a table without seed, else open its lookup
Pass1Table ==
    /\ pc = "pass1" /\ ti <= Len(PASS1_ORDER) /\ ri = 0
    /\ IF ~DictHas(schema.seeds, PASS1_ORDER[ti])
       THEN ti' = ti + 1 /\ ri' = 0 /\ UNCHANGED lookup_tables
       ELSE /\ lookup_tables' = DictSet(lookup_tables, PASS1_ORDER[ti], << >>)
            /\ ri' = 1 /\ ti' = ti
    /\ UNCHANGED <<fvars, mvars, input, run, first, schema, pc, errors, gen_lookup, out>>

\* for i, record in enumerate(records)
Pass1Record ==
    /\ pc = "pass1" /\ ti <= Len(PASS1_ORDER) /\ ri >= 1
    /\ LET table_name == PASS1_ORDER[ti]
           seed_def == SeedDef(schema, table_name)
       IN  /\ ri <= Len(seed_def.records)
           /\ LET record == AssignId(table_name, seed_def.unique_key,
                                     seed_def.records[ri], ri - 1)
              IN  /\ schema' = WithRecords(schema, table_name,
                                    [seed_def.records EXCEPT ![ri] = record])
                  /\ lookup_tables' =
                        DictSet(lookup_tables, table_name,
                                BuildLookup(DictGet(lookup_tables, table_name, << >>),
                                            seed_def.unique_key, record))
    /\ ri' = ri + 1
    /\ UNCHANGED <<fvars, mvars, input, run, first, pc, ti, errors, gen_lookup, out>>

Pass1EndTable ==
    /\ pc = "pass1" /\ ti <= Len(PASS1_ORDER) /\ ri >= 1
    /\ ri > Len(Records(schema, PASS1_ORDER[ti]))
    /\ ti' = ti + 1 /\ ri' = 0
    /\ UNCHANGED <<fvars, mvars, input, run, first, schema, lookup_tables, pc, errors, gen_lookup, out>>

Pass1End ==
    /\ pc = "pass1" /\ ti > Len(PASS1_ORDER)
    /\ pc' = "pass2_sections" /\ ri' = 1 /\ ti' = 0
    /\ UNCHANGED <<fvars, mvars, input, run, first, schema, lookup_tables, errors, gen_lookup, out>>

\* if 'workout_sections' in seeds: for record in records
Pass2SectionsRecord ==
    /\ pc = "pass2_sections"
    /\ DictHas(schema.seeds, "workout_sections")
    /\ ri <= Len(Records(schema, "workout_sections"))
    /\ LET records == Records(schema, "workout_sections")
       IN  schema' = WithRecords(schema, "workout_sections",
                [records EXCEPT ![ri] = ResolveSectionsRecord(lookup_tables, records[ri])])
    /\ ri' = ri + 1
    /\ UNCHANGED <<fvars, mvars, input, run, first, lookup_tables, pc, ti, errors, gen_lookup, out>>

Pass2SectionsEnd ==
    /\ pc = "pass2_sections"
    /\ DictHas(schema.seeds, "workout_sections")
          => ri > Len(Records(schema, "workout_sections"))
    /\ pc' = "pass2_exercises" /\ ri' = 1
    /\ UNCHANGED <<fvars, mvars, input, run, first, schema, lookup_tables, ti, errors, gen_lookup, out>>

\* if 'workout_exercises' in seeds: for record in records
Pass2ExercisesRecord ==
    /\ pc = "pass2_exercises"
    /\ DictHas(schema.seeds, "workout_exercises")
    /\ ri <= Len(Records(schema, "workout_exercises"))
    /\ LET records == Records(schema, "workout_exercises")
       IN  schema' = WithRecords(schema, "workout_exercises",
                [records EXCEPT ![ri] =
                    ResolveExercisesRecord(schema, lookup_tables, records[ri])])
    /\ ri' = ri + 1
    /\ UNCHANGED <<fvars, mvars, input, run, first, lookup_tables, pc, ti, errors, gen_lookup, out>>

\* return schema
ResolveReturn ==
    /\ pc = "pass2_exercises"
    /\ DictHas(schema.seeds, "workout_exercises")
          => ri > Len(Records(schema, "workout_exercises"))
    /\ pc' = "resolved" /\ ri' = 0
    /\ UNCHANGED <<fvars, mvars, input, run, first, schema, lookup_tables, ti, errors, gen_lookup, out>>

----------------------------------------------------------------------------
(* The schema documents the runs start from. *)

Str(col) == [kind |-> "str", cols |-> <<col>>]

List(columns) == [kind |-> "list", cols |-> columns]

Seed(unique_key, records, references) ==
    [unique_key |-> unique_key, records |-> records, references |-> references]

Ref(ref_table, ref_column, target_column) ==
    [ref_table |-> ref_table, ref_column |-> ref_column, target_column |-> target_column]

\* a field definition: 'type', and the 'nullable' and 'primary' flags (absent = falsy)
Field(type) ==
    [has_type |-> TRUE, type |-> type, nullable |-> FALSE, primary |-> FALSE,
     default |-> NONE]

Table(names) ==
    [has_fields |-> TRUE, has_rust_type |-> TRUE, has_ts_type |-> TRUE,
     fields |-> [i \in 1..Len(names) |-> <<names[i], Field("TEXT")>>]]

StdTables ==
    << <<"workouts", Table(<<"id", "name", "category", "created_at">>)>>,
       <<"exercise_definitions", Table(<<"id", "name">>)>>,
       <<"workout_sections", Table(<<"id", "workout_id", "name">>)>>,
       <<"workout_exercises",
         Table(<<"id", "workout_id", "exercise_id", "section_id", "updated_at">>)>>,
       <<"tags", Table(<<"id", "name", "parent_id">>)>> >>

\* one entry of type_mappings: the native type of each target language
Mapping(rust, typescript, postgres) ==
    << <<"rust", <<rust>>>>, <<"typescript", <<typescript>>>>, <<"postgres", <<postgres>>>> >>

StdTypes ==
    << <<"TEXT", Mapping("String", "string", "TEXT")>>,
       <<"UUID", Mapping("Uuid", "string", "UUID")>> >>

Document(tables, seeds) ==
    [has_version |-> TRUE, has_tables |-> TRUE, has_type_mappings |-> TRUE,
     generated_at |-> NONE,
     tables |-> tables, type_mappings |-> StdTypes, seeds |-> seeds]

\* a dict from optional entries: an entry whose value is "-" is left out
Opt(pairs) == SelectSeq(pairs, LAMBDA p : p[2] # <<"-">>)

Absent == <<"-">>

SeqsUpTo(S, n) == UNION {[1..k -> S] : k \in 0..n}

WorkoutRecords ==
    {Opt(<< <<"name", <<n>>>>, <<"category", c>>, <<"id", i>> >>) :
        n \in {"A", "B"}, c \in {Absent, <<"c1">>}, i \in {Absent, <<"X">>}}

WorkoutKeys == {Str("name"), List(<<"name">>), List(<<"name", "category">>)}

SectionRefs == << <<"workout_name", Ref("workouts", "name", "workout_id")>> >>

SectionRecords ==
    {Opt(<< <<"workout_name", w>>, <<"name", <<"W">>>> >>) :
        w \in {Absent, <<"A">>, <<"Nope">>}}

ExerciseRefs ==
    << <<"workout_name", Ref("workouts", "name", "workout_id")>>,
       <<"exercise_name", Ref("exercise_definitions", "name", "exercise_id")>>,
       <<"section_name", Ref("workout_sections", "name", "section_id")>> >>

ExerciseRecords ==
    {Opt(<< <<"workout_name", w>>, <<"exercise_name", e>>, <<"section_name", s>> >>) :
        w \in {Absent, <<"A">>}, e \in {Absent, <<"E">>}, s \in {Absent, <<"W">>}}

DefinitionSeeds ==
    {<< >>} \cup
    {<< <<"exercise_definitions", Seed(k, << Opt(<< <<"name", <<"E">>>> >>) >>, << >>)>> >> :
        k \in {Str("name"), List(<<"name">>)}}

\* a seed of a table outside the resolver's table list, with a reference of its own
TagSeeds ==
    {<< >>,
     << <<"tags", Seed(Str("name"),
                       << Opt(<< <<"name", <<"T">>>> >>),
                          Opt(<< <<"name", <<"U">>>>, <<"parent_name", <<"T">>>> >>) >>,
                       << <<"parent_name", Ref("tags", "name", "parent_id")>> >>)>> >>}

WorkoutSeeds ==
    {<< >>} \cup
    {<< <<"workouts", Seed(k, recs, << >>)>> >> :
        k \in WorkoutKeys, recs \in SeqsUpTo(WorkoutRecords, MaxRecords)}

FixedWorkoutSeeds ==
    {<< <<"workouts", Seed(k, << Opt(<< <<"name", <<"A">>>>, <<"category", <<"c1">>>> >>) >>,
                           << >>)>> >> : k \in WorkoutKeys}

SectionSeeds ==
    {<< >>} \cup
    {<< <<"workout_sections", Seed(List(<<"workout_name", "name">>), recs, SectionRefs)>> >> :
        recs \in SeqsUpTo(SectionRecords, MaxRecords)}

FixedSectionSeeds ==
    {<< <<"workout_sections",
          Seed(List(<<"workout_name", "name">>),
               << Opt(<< <<"workout_name", <<"A">>>>, <<"name", <<"W">>>> >>) >>,
               SectionRefs)>> >>}

ExerciseSeeds ==
    {<< >>} \cup
    {<< <<"workout_exercises",
          Seed(List(<<"workout_name", "exercise_name">>), recs, ExerciseRefs)>> >> :
        recs \in SeqsUpTo(ExerciseRecords, MaxDepRecords)}

FixedExerciseSeeds ==
    {<< <<"workout_exercises",
          Seed(List(<<"workout_name", "exercise_name">>),
               << Opt(<< <<"workout_name", <<"A">>>>, <<"exercise_name", <<"E">>>>,
                         <<"section_name", <<"W">>>> >>) >>,
               ExerciseRefs)>> >>}

\* two workouts with sections of the same name, and an exercise of one of them
JoinSectionRecords ==
    {Opt(<< <<"workout_name", <<w>>>>, <<"name", <<n>>>> >>) :
        w \in {"A", "B"}, n \in {"W", "V"}}

JoinSeeds ==
    {<< <<"workouts", Seed(List(<<"name">>),
                           << Opt(<< <<"name", <<"A">>>> >>), Opt(<< <<"name", <<"B">>>> >>) >>,
                           << >>)>>,
        <<"workout_sections", Seed(List(<<"workout_name", "name">>), recs, SectionRefs)>>,
        <<"workout_exercises",
          Seed(List(<<"workout_name", "section_name">>),
               << Opt(<< <<"workout_name", <<w>>>>, <<"section_name", <<"W">>>> >>) >>,
               ExerciseRefs)>> >> :
        recs \in [1..2 -> JoinSectionRecords], w \in {"A", "B"}}

\* a composite key whose values hold the delimiter of the key string
DelimiterSeeds ==
    {<< <<"workouts",
          Seed(List(<<"name", "category">>),
               << Opt(<< <<"name", n1>>, <<"category", c1>> >>),
                  Opt(<< <<"name", n2>>, <<"category", c2>> >>) >>,
               << >>)>> >> :
        n1 \in {<<"a">>, <<"a", "|", "b">>}, n2 \in {<<"a">>, <<"a", "|", "b">>},
        c1 \in {<<"c">>, <<"b", "|", "c">>}, c2 \in {<<"c">>, <<"b", "|", "c">>}}

\* seeds in document order: the referencing tables may come first in the file
SeedSets ==
    JoinSeeds \cup DelimiterSeeds \cup
    {w \o d \o s \o e \o t :
        w \in WorkoutSeeds, d \in {dd \in DefinitionSeeds : Len(dd) > 0},
        s \in FixedSectionSeeds, e \in FixedExerciseSeeds, t \in {<< >>}}
    \cup
    {e \o s \o w \o d \o t :
        w \in FixedWorkoutSeeds, d \in DefinitionSeeds,
        s \in SectionSeeds, e \in ExerciseSeeds, t \in TagSeeds}

ValidDocuments == {Document(StdTables, seeds) : seeds \in SeedSets}

(* Documents with violations, for validate_schema. *)

\* the tables, optionally with a field of unknown type and a table without 'fields'
TablesWith(unknown, nofields) ==
    << <<"workouts",
         [Table(<<"id", "name", "category", "created_at">>) EXCEPT
            !.fields = IF unknown THEN Append(@, <<"mood", Field("EMOJI")>>) ELSE @]>>,
       <<"tags",
         [Table(<<"id", "name", "parent_id">>) EXCEPT !.has_fields = ~nofields]>> >>

\* the seeds, optionally with a seed of no table, with extra columns in a record
\* and with a seed for the tags table
SeedsWith(ghost, extra, tags) ==
    LET one(n) == << Opt(<< <<"name", <<n>>>> >>) >>
        wrec == Opt(<< <<"name", <<"A">>>> >>)
                \o [c \in 1..extra |-> <<"bogus" \o ToString(c), <<"x">>>>]
    IN  << <<"workouts", Seed(Str("name"), <<wrec>>, << >>)>> >>
        \o (IF ghost THEN << <<"ghosts", Seed(Str("name"), one("G"), << >>)>> >> ELSE << >>)
        \o (IF tags THEN << <<"tags", Seed(Str("name"), one("T"), << >>)>> >> ELSE << >>)

MaxExtraCols == 2

ViolatingDocuments ==
    {[has_version |-> v, has_tables |-> t, has_type_mappings |-> m,
      generated_at |-> NONE,
      tables |-> IF t THEN TablesWith(u, f) ELSE << >>,
      type_mappings |-> IF m THEN StdTypes ELSE << >>,
      seeds |-> SeedsWith(g, x, s)] :
        v \in BOOLEAN, t \in BOOLEAN, m \in BOOLEAN, u \in BOOLEAN, f \in BOOLEAN,
        g \in BOOLEAN, x \in 0..MaxExtraCols, s \in BOOLEAN}

Documents == ValidDocuments \cup ViolatingDocuments

\* main, run once more: json.load reads an equal copy of the same document
Reload ==
    /\ pc = "resolved" /\ run < MaxRuns
    /\ first' = schema
    /\ schema' = input
    /\ run' = run + 1
    /\ pc' = "start"
    /\ UNCHANGED <<fvars, mvars, input, lookup_tables, ti, ri, errors, gen_lookup, out>>

\* resolve_seed_references called on the schema the previous call returned
Reapply ==
    /\ pc = "resolved" /\ run < MaxRuns
    /\ first' = schema
    /\ input' = schema
    /\ run' = run + 1
    /\ pc' = "start"
    /\ UNCHANGED <<fvars, mvars, schema, lookup_tables, ti, ri, errors, gen_lookup, out>>

----------------------------------------------------------------------------
(* generate_all.py: validate_schema *)

RECURSIVE Concat(_)
Concat(lists) == IF Len(lists) = 0 THEN << >> ELSE Head(lists) \o Concat(Tail(lists))

\* the errors of one field of one table
FieldErrors(table_name, field_name, field_def, type_mappings) ==
    IF ~field_def.has_type THEN << <<"missing type", table_name, field_name>> >>
    ELSE IF ~DictHas(type_mappings, field_def.type)
         THEN << <<"unknown type", table_name, field_name, field_def.type>> >>
         ELSE << >>

\* the errors of one table
TableErrors(table_name, table_def, type_mappings) ==
    IF ~table_def.has_fields THEN << <<"missing fields", table_name>> >>
    ELSE (IF table_def.has_rust_type THEN << >> ELSE << <<"missing rust_type", table_name>> >>)
      \o (IF table_def.has_ts_type THEN << >> ELSE << <<"missing ts_type", table_name>> >>)
      \o Concat([f \in 1..Len(table_def.fields) |->
                    FieldErrors(table_name, table_def.fields[f][1], table_def.fields[f][2],
                                type_mappings)])

\* the errors of one seed record: the first column that is neither a reference
\* field nor a field of the table, then break
RecordErrors(seed_table, table_fields, reference_fields, record) ==
    LET bad == {c \in 1..Len(record) :
                    /\ record[c][1] \notin reference_fields
                    /\ ~DictHas(table_fields, record[c][1])}
    IN  IF bad = {} THEN << >>
        ELSE << <<"column not in table", seed_table,
                  record[CHOOSE c \in bad : \A m \in bad : c <= m][1]>> >>

\* the errors of one seed
SeedErrors(sch, seed_table, seed_def) ==
    IF ~DictHas(sch.tables, seed_table) THEN << <<"table not found", seed_table>> >>
    ELSE LET table_fields == DictGet(sch.tables, seed_table, NONE).fields
             reference_fields == KeySet(seed_def.references)
         IN  Concat([r \in 1..Len(seed_def.records) |->
                        RecordErrors(seed_table, table_fields, reference_fields,
                                     seed_def.records[r])])

\* schema['tables'][seed_table]['fields'] of a table without 'fields': KeyError
ValidateRaises(sch) ==
    /\ sch.has_tables /\ sch.has_type_mappings
    /\ \E n \in 1..Len(sch.seeds) :
          /\ DictHas(sch.tables, sch.seeds[n][1])
          /\ ~DictGet(sch.tables, sch.seeds[n][1], NONE).has_fields

\* the returned list
validate_schema(sch) ==
    LET head == IF sch.has_version THEN << >> ELSE << <<"missing version">> >>
    IN  IF ~sch.has_tables THEN Append(head, <<"missing tables">>)
        ELSE IF ~sch.has_type_mappings THEN Append(head, <<"missing type_mappings">>)
        ELSE head
             \o Concat([t \in 1..Len(sch.tables) |->
                          TableErrors(sch.tables[t][1], sch.tables[t][2], sch.type_mappings)])
             \o Concat([n \in 1..Len(sch.seeds) |->
                          SeedErrors(sch, sch.seeds[n][1], sch.seeds[n][2])])

\* errors before validate_schema has returned: not assigned
NoErrors == [bound |-> FALSE, raised |-> FALSE, list |-> << >>]

\* main: errors = validate_schema(schema); if errors: sys.exit(1)
Validate ==
    /\ pc \in {"start", "resolved"}
    /\ errors' = IF ValidateRaises(schema)
                 THEN [bound |-> FALSE, raised |-> TRUE, list |-> << >>]
                 ELSE [bound |-> TRUE, raised |-> FALSE, list |-> validate_schema(schema)]
    /\ pc' = IF errors'.raised THEN "crashed"
             ELSE IF Len(errors'.list) > 0 THEN "exit1" ELSE "validated"
    /\ UNCHANGED <<fvars, mvars, input, run, first, schema, lookup_tables, ti, ri, gen_lookup, out>>

----------------------------------------------------------------------------
(* generate_all.py: the struct, interface and DDL emitters *)

RUST_KEYWORDS ==
    {"type", "match", "use", "ref", "self", "super", "crate", "mod",
     "move", "mut", "pub", "static", "trait", "where", "async", "await", "dyn"}

\* DOMAINS: the domain keys, in declaration order, with the tables each one lists
DOMAINS ==
    << <<"auth", {"users", "sessions", "accounts", "authenticators",
                  "verification_tokens", "roles", "entitlements", "role_entitlements",
                  "user_roles", "oauth_state"}>>,
       <<"gamification", {"user_progress", "user_wallet", "wallet_transactions",
                          "skill_definitions", "user_skills", "streaks",
                          "achievement_definitions", "user_achievements",
                          "universal_quests", "user_quests", "activity_events"}>>,
       <<"focus", {"focus_sessions", "focus_pause_state", "focus_settings"}>>,
       <<"habits_goals", {"habits", "habit_completions", "habit_schedules",
                          "goals", "goal_milestones", "goal_progress"}>>,
       <<"books", {"books", "reading_sessions", "book_notes", "book_highlights"}>>,
       <<"fitness", {"workout_templates", "workout_exercises", "workout_sessions",
                     "workout_sets", "exercise_definitions", "personal_records",
                     "daily_calories", "exercise_settings"}>>,
       <<"learning", {"learn_topics", "learn_lessons", "learn_quizzes",
                      "learn_quiz_questions", "user_lesson_progress",
                      "user_quiz_attempts"}>>,
       <<"market", {"market_items", "user_inventory", "user_purchases"}>>,
       <<"calendar", {"calendar_events", "daily_plans", "daily_reflections"}>>,
       <<"frames", {"analysis_frame_manifests", "analysis_frame_data", "analysis_events"}>>,
       <<"music", {"music_analyses", "music_sections", "music_key_changes", "music_stems",
                   "music_settings"}>>,
       <<"sync", {"sync_queue", "user_preferences", "user_settings", "feature_flags"}>>,
       <<"content", {"infobase_items", "inbox_items", "ideas", "references_library",
                     "tags", "tag_associations"}>>,
       <<"onboarding", {"onboarding_flows", "onboarding_steps", "user_onboarding"}>>,
       <<"admin", {"feedback", "system_stats", "schema_version", "audit_log",
                   "email_templates", "notification_templates"}>> >>

\* the domain key of a table, "other" when no domain lists it
get_domain_for_table(table_name) ==
    LET hits == {n \in 1..Len(DOMAINS) : table_name \in DOMAINS[n][2]}
    IN  IF hits = {} THEN "other"
        ELSE DOMAINS[CHOOSE n \in hits : \A m \in hits : n <= m][1]

\* the table names of the documents, in the ascending order of Python's str
SORTED_NAMES ==
    <<"exercise_definitions", "ghosts", "schema_version", "tag_associations", "tags",
      "workout_exercises", "workout_sections", "workouts">>

\* a < b for two table names
NameLess(a, b) ==
    \E i, j \in 1..Len(SORTED_NAMES) : SORTED_NAMES[i] = a /\ SORTED_NAMES[j] = b /\ i < j

\* self.tables_by_domain[domain_key]: the tables of the domain, sorted by name
TablesByDomain(tables, domain_key) ==
    SortSeq(SelectSeq(tables, LAMBDA t : get_domain_for_table(t[1]) = domain_key),
            LAMBDA x, y : NameLess(x[1], y[1]))

\* the tables in the order the emitters declare them: domain by domain, then "other"
EmitOrder(tables) ==
    Concat([n \in 1..Len(DOMAINS) |-> TablesByDomain(tables, DOMAINS[n][1])])
    \o TablesByDomain(tables, "other")

\* self.type_mappings[field_def['type']][language]
NativeType(type_mappings, field_def, language) ==
    DictGet(DictGet(type_mappings, field_def.type, << >>), language, NONE)

\* rust_field_name: the r# prefix for a reserved word
rust_field_name(name) == IF name \in RUST_KEYWORDS THEN <<"r#", name>> ELSE <<name>>

\* the type of a struct field: Option<T> for a nullable field
RustFieldType(rust_type, field_def) ==
    IF field_def.nullable THEN <<"Option<">> \o rust_type \o <<">">> ELSE rust_type

\* _rust_struct: the struct of one table
rust_struct(type_mappings, table_name, table_def) ==
    [table |-> table_name,
     fields |-> [f \in 1..Len(table_def.fields) |->
        LET field_def == table_def.fields[f][2]
        IN  [name |-> rust_field_name(table_def.fields[f][1]),
             type |-> RustFieldType(NativeType(type_mappings, field_def, "rust"),
                                    field_def)]]]

\* the name of an interface member: "name?" for a nullable field
TsFieldName(field_name, field_def) ==
    <<field_name>> \o (IF field_def.nullable THEN <<"?">> ELSE << >>)

\* _ts_interface: the interface of one table
ts_interface(type_mappings, table_name, table_def) ==
    [table |-> table_name,
     fields |-> [f \in 1..Len(table_def.fields) |->
        LET field_def == table_def.fields[f][2]
        IN  [name |-> TsFieldName(table_def.fields[f][1], field_def),
             type |-> NativeType(type_mappings, field_def, "typescript")]]]

\* constraints that put NOT NULL on every field that is not nullable
ConstraintsByNullableOnly(field_def) ==
    (IF field_def.primary THEN <<"PRIMARY KEY">> ELSE << >>)
    \o (IF ~field_def.nullable THEN <<"NOT NULL">> ELSE << >>)

\* generate_sql: the constraints of one column
SqlConstraints(field_def) ==
    (IF field_def.primary THEN <<"PRIMARY KEY">> ELSE << >>)
    \o (IF ~field_def.nullable /\ ~field_def.primary THEN <<"NOT NULL">> ELSE << >>)
    \o (IF field_def.default # NONE THEN <<"DEFAULT">> \o field_def.default ELSE << >>)

\* generate_sql: the CREATE TABLE of one table
create_table(type_mappings, table_name, table_def) ==
    [table |-> table_name,
     fields |-> [f \in 1..Len(table_def.fields) |->
        LET field_def == table_def.fields[f][2]
        IN  [name |-> <<table_def.fields[f][1]>>,
             type |-> NativeType(type_mappings, field_def, "postgres"),
             constraints |-> SqlConstraints(field_def)]]]

\* self.version
Version(sch) == IF sch.has_version THEN <<"1.0.0">> ELSE <<"0.0.0">>

\* self.generated_at = schema.get('generated_at', datetime.now().strftime('%Y-%m-%d'))
GeneratedAt(sch, now) == IF sch.generated_at # NONE THEN sch.generated_at ELSE now

\* a generated text, as the value of a str variable and as the content of a file
Text(parts) == <<"text", parts>>

\* generate_sql: the CREATE TABLE IF NOT EXISTS of the version tracking table,
\* which the text holds before the tables of the schema
SCHEMA_VERSION_TRACKING ==
    << [table |-> "schema_version",
        fields |-> << [name |-> <<"version">>, type |-> <<"TEXT">>,
                       constraints |-> <<"PRIMARY KEY">>],
                      [name |-> <<"applied_at">>, type |-> <<"TIMESTAMPTZ">>,
                       constraints |-> <<"NOT NULL", "DEFAULT", "NOW()">>],
                      [name |-> <<"description">>, type |-> <<"TEXT">>,
                       constraints |-> << >>] >>] >>

\* the header and the declarations of one generated module (the comments and the
\* statements that name no table of the text are the same in every run and are
\* left out)
Module(sch, now, language) ==
    LET order == EmitOrder(sch.tables)
    IN  Text([version |-> Version(sch),
              generated_at |-> GeneratedAt(sch, now),
              tracking |-> IF language = "postgres" THEN SCHEMA_VERSION_TRACKING
                           ELSE << >>,
              decls |-> [n \in 1..Len(order) |->
                           IF language = "rust"
                           THEN rust_struct(sch.type_mappings, order[n][1], order[n][2])
                           ELSE IF language = "typescript"
                           THEN ts_interface(sch.type_mappings, order[n][1], order[n][2])
                           ELSE create_table(sch.type_mappings, order[n][1], order[n][2])]])

generate_rust(sch, now) == Module(sch, now, "rust")

generate_typescript(sch, now) == Module(sch, now, "typescript")

generate_sql(sch, now) == Module(sch, now, "postgres")

\* a subscript of type_mappings[...] that raises KeyError in one of the emitters
GenerateRaises(sch) ==
    \E t \in 1..Len(sch.tables) : \E f \in 1..Len(sch.tables[t][2].fields) :
        \E language \in {"rust", "typescript", "postgres"} :
            NativeType(sch.type_mappings, sch.tables[t][2].fields[f][2], language) = NONE

(* generate_from_schema.py *)

\* generate_rust_model: one "pub name: type," per field, the name as it is
generate_rust_model(table_name, table_def, type_mappings) ==
    [table |-> table_name,
     fields |-> [f \in 1..Len(table_def.fields) |->
        LET field_def == table_def.fields[f][2]
        IN  [name |-> <<table_def.fields[f][1]>>,
             type |-> RustFieldType(NativeType(type_mappings, field_def, "rust"),
                                    field_def)]]]

generate_typescript_interface(table_name, table_def, type_mappings) ==
    ts_interface(type_mappings, table_name, table_def)

\* generate_sql_migration: the constraints of one column (a str default is quoted)
MigrationConstraints(field_def) ==
    (IF field_def.primary THEN <<"PRIMARY KEY">> ELSE << >>)
    \o (IF ~field_def.nullable /\ ~field_def.primary THEN <<"NOT NULL">> ELSE << >>)
    \o (IF field_def.default # NONE
        THEN <<"DEFAULT", "'">> \o field_def.default \o <<"'">> ELSE << >>)

generate_sql_migration(table_name, table_def, type_mappings) ==
    [table |-> table_name,
     fields |-> [f \in 1..Len(table_def.fields) |->
        LET field_def == table_def.fields[f][2]
        IN  [name |-> <<table_def.fields[f][1]>>,
             type |-> NativeType(type_mappings, field_def, "postgres"),
             constraints |-> MigrationConstraints(field_def)]]]

\* what main prints: the declarations of every table, in document order
Printed(sch, language) ==
    Text([decls |-> [n \in 1..Len(sch.tables) |->
                        LET table_name == sch.tables[n][1]
                            table_def == sch.tables[n][2]
                        IN  IF language = "rust"
                            THEN generate_rust_model(table_name, table_def,
                                                     sch.type_mappings)
                            ELSE IF language = "typescript"
                            THEN generate_typescript_interface(table_name, table_def,
                                                               sch.type_mappings)
                            ELSE generate_sql_migration(table_name, table_def,
                                                        sch.type_mappings)]])

(* generate_all.py: generate_seeds, the returned text *)

\* the text generate_seeds returns, given the statements it emitted
SeedsContent(sch, now, statements) ==
    IF Len(sch.seeds) = 0
    THEN Text([version |-> Version(sch), generated_at |-> NONE, decls |-> << >>])
    ELSE Text([version |-> Version(sch), generated_at |-> GeneratedAt(sch, now),
               decls |-> statements])

----------------------------------------------------------------------------
(* generate_all.py: SchemaGenerator.generate_seeds *)

\* the values of a JSON document other than None and str: a bool, a number (with
\* the text str() gives it), a dict of one key with a str value, a list of one str
PyBool(b) == <<"<bool>", b>>

PyNumber(text) == <<"<number>", text>>

PyDict(key, value) == <<"<dict>", key>> \o value

PyList(item) == <<"<list>">> \o item

\* the branch of the isinstance chain a value takes
KindOf(v) ==
    IF v = NONE THEN "None"
    ELSE IF Len(v) > 0 /\ Head(v) \in {"<bool>", "<number>", "<dict>", "<list>"}
         THEN Head(v) ELSE "str"

\* json.dumps of a dict whose strings hold neither a double quote nor a backslash
json_dumps(v) ==
    <<"{", "\"", v[2], "\"", ": ", "\"">> \o SubSeq(v, 3, Len(v)) \o <<"\"", "}">>

\* f"{val}" of a list: str(list) is the repr of its items, and the repr of a str
\* with a single quote (and no double quote) is delimited by double quotes
PyListStr(v) ==
    LET item == Tail(v)
        delimiter == IF \E i \in 1..Len(item) : item[i] = "'" THEN "\"" ELSE "'"
    IN  <<"[", delimiter>> \o item \o <<delimiter, "]">>

\* format_sql_value(val, field_type): field_type is not read
format_sql_value(v) ==
    IF v = NONE THEN <<"NULL">>
    ELSE IF KindOf(v) = "<bool>" THEN (IF v[2] = "True" THEN <<"true">> ELSE <<"false">>)
    ELSE IF KindOf(v) = "<number>" THEN <<v[2]>>
    ELSE IF KindOf(v) = "<dict>" THEN <<"'">> \o json_dumps(v) \o <<"'">>
    ELSE IF KindOf(v) = "str"
         THEN <<"'">> \o Replace(v, <<"'">>, <<"'", "'">>) \o <<"'">>
    ELSE <<"'">> \o PyListStr(v) \o <<"'">>

MaxLen == 3

\* the str values: up to MaxLen characters, some of them single quotes
Strings == UNION {[1..k -> {"a", "'"}] : k \in 0..MaxLen}

\* the values format_sql_value is called with
Values ==
    {NONE} \cup {PyBool(b) : b \in {"True", "False"}}
    \cup {PyNumber(t) : t \in {"0", "5", "-3", "1.5"}}
    \cup Strings
    \cup {PyDict("k", x) : x \in Strings}
    \cup {PyList(x) : x \in Strings}

\* record.get('id') or self._generate_deterministic_uuid(table_name, str(i))
GenRecordId(table_name, record, i) ==
    IF Truthy(DictGet(record, "id", NONE)) THEN DictGet(record, "id", NONE)
    ELSE generate_deterministic_uuid(<<table_name>>, IndexStr(i))

\* the lookup entries of one record
RECURSIVE GenAddKeys(_, _, _, _, _)
GenAddKeys(lookup, cols, record, record_id, k) ==
    IF k > Len(cols) THEN lookup
    ELSE LET key_value == DictGet(record, cols[k], NONE)
             next == IF Truthy(key_value)
                     THEN DictSet(lookup, ColEquals(cols[k], key_value), record_id)
                     ELSE lookup
         IN  GenAddKeys(next, cols, record, record_id, k + 1)

\* the lookup of one table (a list and a str unique key store the same way)
RECURSIVE GenTableLookup(_, _, _, _)
GenTableLookup(lookup, table_name, seed_def, r) ==
    IF r > Len(seed_def.records) THEN lookup
    ELSE LET record == seed_def.records[r]
             record_id == GenRecordId(table_name, record, r - 1)
             next == IF seed_def.unique_key.kind \in {"list", "str"}
                     THEN GenAddKeys(lookup, seed_def.unique_key.cols, record, record_id, 1)
                     ELSE lookup
         IN  GenTableLookup(next, table_name, seed_def, r + 1)

\* first pass: lookup_tables over self.seeds.items()
GenLookups(seeds) ==
    [n \in 1..Len(seeds) |->
        <<seeds[n][1], GenTableLookup(<< >>, seeds[n][1], seeds[n][2], 1)>>]

\* ordered_seeds: the tables of table_order that are seeded, then the other seeds
OrderedSeeds(seeds) ==
    SelectSeq(PASS1_ORDER, LAMBDA t : DictHas(seeds, t))
    \o SelectSeq(DictKeys(seeds), LAMBDA t : \A n \in 1..Len(PASS1_ORDER) : PASS1_ORDER[n] # t)

AUTO_COLS == <<"id", "created_at", "updated_at">>

InSeq(sq, x) == \E n \in 1..Len(sq) : sq[n] = x

\* the column list, from the keys of records[0]
RECURSIVE SampleCols(_, _, _, _, _)
SampleCols(insert_cols, sample, references, table_fields, c) ==
    IF c > Len(sample) THEN insert_cols
    ELSE LET col == sample[c][1]
             target_col == DictGet(references, col, NONE).target_column
             next ==
                IF DictHas(references, col)
                THEN IF DictHas(table_fields, target_col) /\ ~InSeq(insert_cols, target_col)
                     THEN Append(insert_cols, target_col) ELSE insert_cols
                ELSE IF ~InSeq(insert_cols, col) /\ DictHas(table_fields, col)
                     THEN Append(insert_cols, col) ELSE insert_cols
         IN  SampleCols(next, sample, references, table_fields, c + 1)

InsertCols(sample, references, table_fields) ==
    SampleCols(SelectSeq(AUTO_COLS, LAMBDA a : DictHas(table_fields, a)),
               sample, references, table_fields, 1)

\* the value of a reference target column: the first reference with this target
RefValue(lookups, record, references, col) ==
    LET n == CHOOSE n \in 1..Len(references) :
                /\ references[n][2].target_column = col
                /\ \A m \in 1..(n - 1) : references[m][2].target_column # col
        ref_def == references[n][2]
        ref_value == DictGet(record, references[n][1], NONE)
        lookup_key == ColEquals(ref_def.ref_column, ref_value)
    IN  IF Truthy(ref_value) /\ DictHas(lookups, ref_def.ref_table)
        THEN IF DictHas(DictGet(lookups, ref_def.ref_table, << >>), lookup_key)
             THEN format_sql_value(DictGet(DictGet(lookups, ref_def.ref_table, << >>),
                                           lookup_key, NONE))
             ELSE <<"NULL">>
        ELSE <<"NULL">>

\* the SQL text of one column of one row
RowValue(lookups, record, references, col) ==
    IF col = "id"
    THEN LET value == DictGet(record, "id", NONE)
         IN  IF value = NONE \/ value = <<"gen_random_uuid()">>
             THEN <<"gen_random_uuid()">> ELSE format_sql_value(value)
    ELSE IF col \in {"created_at", "updated_at"} THEN <<"NOW()">>
    ELSE IF \E n \in 1..Len(references) : references[n][2].target_column = col
         THEN RefValue(lookups, record, references, col)
         ELSE format_sql_value(DictGet(record, col, NONE))

\* f"ON CONFLICT ({unique_key}) DO NOTHING;" if unique_key else "ON CONFLICT DO NOTHING;"
ConflictTarget(unique_key) ==
    IF unique_key.kind = "str" THEN <<"(", unique_key.cols[1], ")">>
    ELSE IF unique_key.kind = "list" /\ Len(unique_key.cols) > 0
         THEN <<"(", "[">>
              \o Join(<<", ">>, [k \in 1..Len(unique_key.cols) |->
                                    <<"'", unique_key.cols[k], "'">>])
              \o <<"]", ")">>
         ELSE << >>

\* the INSERT of one seeded table
InsertStatement(sch, lookups, table_name) ==
    LET seed_def == SeedDef(sch, table_name)
        table_fields == DictGet(sch.tables, table_name, NONE).fields
        insert_cols == InsertCols(seed_def.records[1], seed_def.references, table_fields)
    IN  [table |-> table_name,
         cols |-> insert_cols,
         rows |-> [r \in 1..Len(seed_def.records) |->
                     [c \in 1..Len(insert_cols) |->
                         RowValue(lookups, seed_def.records[r], seed_def.references,
                                  insert_cols[c])]],
         conflict |-> ConflictTarget(seed_def.unique_key)]

\* gen = SchemaGenerator(schema); generate_seeds: the first pass
GenStart ==
    /\ pc = "seeds"
    /\ out' = << >>
    /\ IF Len(schema.seeds) = 0
       THEN /\ pc' = "done" /\ ti' = 0 /\ UNCHANGED gen_lookup
            /\ gen' = [gen EXCEPT !.seeds = SeedsContent(schema, today, out')]
       ELSE /\ pc' = "emit" /\ ti' = 1 /\ gen_lookup' = GenLookups(schema.seeds)
            /\ UNCHANGED gen
    /\ UNCHANGED <<fvars, input, run, first, schema, lookup_tables, ri, errors,
                   args, exists, today, fs, fs0, prev>>

\* for table_name, seed_def in ordered_seeds.items()
GenEmitTable ==
    /\ pc = "emit" /\ ti <= Len(OrderedSeeds(schema.seeds))
    /\ LET table_name == OrderedSeeds(schema.seeds)[ti]
       IN  IF ~DictHas(schema.tables, table_name) \/ Len(Records(schema, table_name)) = 0
           THEN UNCHANGED out
           ELSE out' = Append(out, InsertStatement(schema, gen_lookup, table_name))
    /\ ti' = ti + 1
    /\ UNCHANGED <<fvars, mvars, input, run, first, schema, lookup_tables, pc, ri, errors, gen_lookup>>

\* return '\n'.join(lines)
GenEnd ==
    /\ pc = "emit" /\ ti > Len(OrderedSeeds(schema.seeds))
    /\ pc' = "done" /\ ti' = 0
    /\ gen' = [gen EXCEPT !.seeds = SeedsContent(schema, today, out)]
    /\ UNCHANGED <<fvars, input, run, first, schema, lookup_tables, ri, errors, gen_lookup, out,
                   args, exists, today, fs, fs0, prev>>

----------------------------------------------------------------------------
(* The command lines, dates, files and documents the runs of main start from. *)

\* a destination file that does not exist
ABSENT == <<"<no file>">>

\* a file opened for writing and not written yet
EMPTY == << >>

\* what a destination file holds before the first run, when it exists
OLD == <<"<old content>">>

\* nothing generated yet
NoContent == [rust |-> NONE, ts |-> NONE, sql |-> NONE, seeds |-> NONE]

Flags(validate, dry_run, sql_only, no_archive) ==
    [validate |-> validate, dry_run |-> dry_run, sql_only |-> sql_only,
     no_archive |-> no_archive]

NoFlags == Flags(FALSE, FALSE, FALSE, FALSE)

ArgSets == {Flags(v, d, q, a) : v \in BOOLEAN, d \in BOOLEAN, q \in BOOLEAN, a \in BOOLEAN}

FirstDay == <<"2026-01-01">>

DAYS == {FirstDay, <<"2026-01-02">>}

\* the destination files, each holding content
Files(content) ==
    [rust |-> content, ts |-> content, sql |-> content, seeds |-> content,
     archive |-> {}, changes |-> content]

NoFiles == Files(ABSENT)

\* the tables, with one more field in workouts and a table of tag associations
TablesOf(field_name, field_def) ==
    [n \in 1..Len(StdTables) |->
        IF StdTables[n][1] = "workouts"
        THEN <<"workouts", [StdTables[n][2] EXCEPT !.fields = Append(@, <<field_name, field_def>>)]>>
        ELSE StdTables[n]]
    \o << <<"tag_associations", Table(<<"id", "tag_id", "label">>)>> >>

\* the same tables, declared in the opposite order in the file
Reversed(tables) == [n \in 1..Len(tables) |-> tables[Len(tables) + 1 - n]]

\* type_mappings whose TEXT entry lacks the native type of one language
TypesWithout(language) ==
    [n \in 1..Len(StdTypes) |->
        IF StdTypes[n][1] = "TEXT" THEN <<"TEXT", DictDel(StdTypes[n][2], language)>>
        ELSE StdTypes[n]]

TypeVariants == {StdTypes, TypesWithout("rust"), TypesWithout("postgres")}

AssociationRefs == << <<"tag_name", Ref("tags", "name", "tag_id")>> >>

\* the seeds of the documents of main; a referencing seed may come first in the file
MainSeeds ==
    {<< >>,
     << <<"workouts", Seed(List(<<"name">>), << Opt(<< <<"name", <<"A">>>> >>) >>, << >>)>>,
        <<"workout_sections",
          Seed(List(<<"workout_name", "name">>),
               << Opt(<< <<"workout_name", <<"A">>>>, <<"name", <<"W">>>> >>) >>,
               SectionRefs)>> >>,
     << <<"workout_sections",
          Seed(List(<<"workout_name", "name">>),
               << Opt(<< <<"workout_name", <<"A">>>>, <<"name", <<"W">>>> >>) >>,
               SectionRefs)>>,
        <<"workouts", Seed(Str("name"), << Opt(<< <<"name", <<"A">>>> >>) >>, << >>)>> >>,
     << <<"tag_associations",
          Seed(Str("label"),
               << Opt(<< <<"label", <<"L">>>>, <<"tag_name", <<"T">>>> >>) >>,
               AssociationRefs)>>,
        <<"tags", Seed(Str("name"), << Opt(<< <<"name", <<"T">>>> >>) >>, << >>)>> >>}

MainDocument(tables, types, seeds, generated_at) ==
    [Document(tables, seeds) EXCEPT !.type_mappings = types, !.generated_at = generated_at]

FieldNames == {"type", "enum", "label"}

MainDocuments ==
    {MainDocument(TablesOf(name, [Field("TEXT") EXCEPT !.nullable = nul, !.primary = pri]),
                  StdTypes, << >>, NONE) :
        name \in FieldNames, nul \in BOOLEAN, pri \in BOOLEAN}
    \cup
    {MainDocument(TablesOf("label", Field(type)), types, << >>, NONE) :
        type \in {"TEXT", "EMOJI"}, types \in TypeVariants}
    \cup
    {MainDocument(TablesOf("label", Field("TEXT")), StdTypes, seeds, generated_at) :
        seeds \in MainSeeds, generated_at \in {NONE, FirstDay}}
    \cup
    {MainDocument(Reversed(TablesOf("label", Field("TEXT"))), StdTypes, << >>, NONE),
     MainDocument(TablesOf("label", Field("TEXT"))
                    \o << <<"schema_version", Table(<<"version", "description">>)>> >>,
                  StdTypes, << >>, NONE)}

----------------------------------------------------------------------------
(* generate_all.py: main *)

\* the destination files that are written, in the order main writes them
Targets(a) ==
    (IF a.sql_only THEN << >> ELSE <<"rust", "ts">>) \o <<"sql", "seeds">>

\* a main that does not look at --dry-run
DryRunIgnored(a) == FALSE

\* if args.dry_run: return
DryRunReturns(a) == a.dry_run

\* if not SCHEMA_FILE.exists(): sys.exit(1); schema = json.load(f)
MainLoad ==
    /\ pc = "main"
    /\ IF ~exists THEN pc' = "exit1" /\ UNCHANGED schema
       ELSE pc' = "start" /\ schema' = input
    /\ UNCHANGED <<fvars, input, lookup_tables, ti, ri, errors, gen_lookup, out, run, first,
                   args, exists, today, fs, fs0, gen, prev>>

\* if args.validate: return
ValidateOnly ==
    /\ pc = "validated" /\ args.validate
    /\ pc' = "returned"
    /\ UNCHANGED <<fvars, input, schema, lookup_tables, ti, ri, errors, gen_lookup, out, run,
                   first, mvars>>

\* gen = SchemaGenerator(schema); generate_rust, generate_typescript, generate_sql
Generate ==
    /\ pc = "validated" /\ ~args.validate
    /\ IF GenerateRaises(schema)
       THEN pc' = "crashed" /\ UNCHANGED gen
       ELSE /\ pc' = "seeds"
            /\ gen' = [gen EXCEPT !.rust = generate_rust(schema, today),
                                  !.ts = generate_typescript(schema, today),
                                  !.sql = generate_sql(schema, today)]
    /\ UNCHANGED <<fvars, input, schema, lookup_tables, ti, ri, errors, gen_lookup, out, run,
                   first, args, exists, today, fs, fs0, prev>>

\* the dry run prints the sizes and returns
DryRun ==
    /\ pc = "done" /\ DryRunReturns(args)
    /\ pc' = "returned"
    /\ UNCHANGED <<fvars, input, schema, lookup_tables, ti, ri, errors, gen_lookup, out, run,
                   first, mvars>>

\* the three mkdir(parents=True, exist_ok=True)
MakeDirs ==
    /\ pc = "done" /\ ~DryRunReturns(args)
    /\ pc' = "unlink" /\ ti' = 1
    /\ UNCHANGED <<fvars, input, schema, lookup_tables, ri, errors, gen_lookup, out, run,
                   first, mvars>>

\* if path.exists(): path.unlink()
UnlinkOld ==
    /\ pc = "unlink"
    /\ fs' = [fs EXCEPT ![Targets(args)[ti]] = ABSENT]
    /\ pc' = "open"
    /\ UNCHANGED <<fvars, input, schema, lookup_tables, ti, ri, errors, gen_lookup, out, run,
                   first, args, exists, today, fs0, gen, prev>>

\* path.write_text(content): the file is opened for writing (created empty)
WriteOpen ==
    /\ pc = "open"
    /\ fs' = [fs EXCEPT ![Targets(args)[ti]] = EMPTY]
    /\ pc' = "write"
    /\ UNCHANGED <<fvars, input, schema, lookup_tables, ti, ri, errors, gen_lookup, out, run,
                   first, args, exists, today, fs0, gen, prev>>

\* path.write_text(content): the content is written and the file closed
WriteData ==
    /\ pc = "write"
    /\ fs' = [fs EXCEPT ![Targets(args)[ti]] = gen[Targets(args)[ti]]]
    /\ ti' = ti + 1
    /\ pc' = IF ti + 1 > Len(Targets(args)) THEN "archive" ELSE "unlink"
    /\ UNCHANGED <<fvars, input, schema, lookup_tables, ri, errors, gen_lookup, out, run,
                   first, args, exists, today, fs0, gen, prev>>

\* if not args.no_archive: the archive copies, named after the version and the time
\* (fewer than six archives exist in a run of the model: the clean-up removes none)
Archive ==
    /\ pc = "archive"
    /\ fs' = IF args.no_archive THEN fs
             ELSE [fs EXCEPT !.archive = @ \cup {<<Version(schema), today, run>>}]
    /\ pc' = "finished" /\ ti' = 0
    /\ UNCHANGED <<fvars, input, schema, lookup_tables, ri, errors, gen_lookup, out, run,
                   first, args, exists, today, fs0, gen, prev>>

\* the run ends inside the write steps: a file operation raises OSError, or the
\* process is interrupted
Abort ==
    /\ pc \in {"unlink", "open", "write", "archive"}
    /\ pc' = "aborted"
    /\ UNCHANGED <<fvars, input, schema, lookup_tables, ti, ri, errors, gen_lookup, out, run,
                   first, mvars>>

\* an independent run on the same document, at the same or at a later date
Rerun ==
    /\ pc = "finished" /\ run < MaxRuns
    /\ prev' = gen
    /\ run' = run + 1
    /\ today' \in DAYS
    /\ fs0' = fs
    /\ gen' = NoContent
    /\ errors' = NoErrors
    /\ out' = << >> /\ gen_lookup' = << >>
    /\ pc' = "main"
    /\ UNCHANGED <<fvars, input, schema, lookup_tables, ti, ri, first, args, exists, fs>>

(* generate_from_schema.py: main *)

\* schema = load_schema(); the models, interfaces and migrations are printed
\* (no validation: a subscript of a missing key raises KeyError)
FromSchemaMain ==
    /\ pc = "main" /\ exists /\ run = 1 /\ args = NoFlags
    /\ IF GenerateRaises(input)
       THEN pc' = "crashed" /\ UNCHANGED gen
       ELSE /\ pc' = "printed"
            /\ gen' = [gen EXCEPT !.rust = Printed(input, "rust"),
                                  !.ts = Printed(input, "typescript"),
                                  !.sql = Printed(input, "postgres")]
    /\ fs' = IF GenerateRaises(input) THEN fs
             ELSE [fs EXCEPT !.changes = Text([version |-> Version(input),
                                               generated |-> today,
                                               tables |-> DictKeys(input.tables)])]
    /\ UNCHANGED <<fvars, input, schema, lookup_tables, ti, ri, errors, gen_lookup, out, run,
                   first, args, exists, today, fs0, prev>>

----------------------------------------------------------------------------
(* The runs. *)

Init ==
    /\ input \in Documents
    /\ schema = input
    /\ lookup_tables = << >>
    /\ pc = "start"
    /\ ti = 0
    /\ ri = 0
    /\ errors = NoErrors
    /\ gen_lookup = << >>
    /\ out = << >>
    /\ run = 1
    /\ first = input
    /\ args = NoFlags
    /\ exists = TRUE
    /\ today = FirstDay
    /\ fs = NoFiles
    /\ fs0 = fs
    /\ gen = NoContent
    /\ prev = NoContent
    /\ val = NONE
    /\ literal = NONE

Next ==
    \/ ResolveStart
    \/ Pass1Table
    \/ Pass1Record
    \/ Pass1EndTable
    \/ Pass1End
    \/ Pass2SectionsRecord
    \/ Pass2SectionsEnd
    \/ Pass2ExercisesRecord
    \/ ResolveReturn
    \/ Reload
    \/ Reapply
    \/ Validate
    \/ Generate
    \/ GenStart
    \/ GenEmitTable
    \/ GenEnd

Spec == Init /\ [][Next]_vars

MainInit ==
    /\ input \in MainDocuments
    /\ schema = input
    /\ lookup_tables = << >>
    /\ pc = "main"
    /\ ti = 0
    /\ ri = 0
    /\ errors = NoErrors
    /\ gen_lookup = << >>
    /\ out = << >>
    /\ run = 1
    /\ first = input
    /\ args \in ArgSets
    /\ exists \in BOOLEAN
    /\ today = FirstDay
    /\ fs \in {NoFiles, Files(OLD)}
    /\ fs0 = fs
    /\ gen = NoContent
    /\ prev = NoContent
    /\ val = NONE
    /\ literal = NONE

MainNext ==
    \/ MainLoad
    \/ Validate
    \/ ValidateOnly
    \/ Generate
    \/ GenStart
    \/ GenEmitTable
    \/ GenEnd
    \/ DryRun
    \/ MakeDirs
    \/ UnlinkOld
    \/ WriteOpen
    \/ WriteData
    \/ Archive
    \/ Abort
    \/ Rerun
    \/ FromSchemaMain

MainSpec == MainInit /\ [][MainNext]_vars

----------------------------------------------------------------------------
(* format_sql_value, called on one value. *)

\* a call of format_sql_value
FormatValue ==
    /\ pc = "format"
    /\ literal' = format_sql_value(val)
    /\ pc' = "formatted"
    /\ UNCHANGED <<val, mvars, input, schema, lookup_tables, ti, ri, errors, gen_lookup,
                   out, run, first>>

FormatInit ==
    /\ val \in Values
    /\ literal = NONE
    /\ pc = "format"
    /\ input = NONE /\ schema = NONE /\ first = NONE
    /\ lookup_tables = << >> /\ gen_lookup = << >> /\ out = << >>
    /\ ti = 0 /\ ri = 0 /\ run = 1
    /\ errors = NoErrors
    /\ args = NoFlags /\ exists = TRUE /\ today = FirstDay
    /\ fs = NoFiles /\ fs0 = fs /\ gen = NoContent /\ prev = NoContent

FormatNext == FormatValue

FormatSpec == FormatInit /\ [][FormatNext]_vars

----------------------------------------------------------------------------
(* Properties of the resolver. *)

\* the records of a table's seed, << >> when the table has no seed
RecordsOf(sch, table_name) ==
    IF DictHas(sch.seeds, table_name) THEN Records(sch, table_name) ELSE << >>

\* the indices of the records of ref.ref_table whose ref_column holds value
Referents(sch, ref, value) ==
    {q \in 1..Len(RecordsOf(sch, ref.ref_table)) :
        DictGet(RecordsOf(sch, ref.ref_table)[q], ref.ref_column, NONE) = value}

\* the identifiers the records of ref.ref_table that match value carry in sch
ReferentIds(sch, ref, value) ==
    {DictGet(RecordsOf(sch, ref.ref_table)[q], "id", NONE) : q \in Referents(input, ref, value)}

\* every (table, record index, reference index) of the loaded document whose record
\* holds the reference's pseudo-field
DeclaredUses ==
    {u \in UNION {{<<n, r, k>> : r \in 1..Len(input.seeds[n][2].records),
                                 k \in 1..Len(input.seeds[n][2].references)} :
                  n \in 1..Len(input.seeds)} :
        DictHas(input.seeds[u[1]][2].records[u[2]], input.seeds[u[1]][2].references[u[3]][1])}

UseTable(u) == input.seeds[u[1]][1]

UseRef(u) == input.seeds[u[1]][2].references[u[3]][2]

UsePseudo(u) == input.seeds[u[1]][2].references[u[3]][1]

UseValue(u) == DictGet(input.seeds[u[1]][2].records[u[2]], UsePseudo(u), NONE)

\* the record of the use, as it is now
UseRecord(u) == schema.seeds[u[1]][2].records[u[2]]

\* C1: after resolve_seed_references, for every seeded table, record and declared
\* reference, when ref_table has a seed record whose ref_column equals the value
\* under the pseudo-field, the record's target_column holds that referent's id.
C1_ReferencesResolved ==
    pc = "resolved" =>
        \A u \in DeclaredUses :
            Referents(input, UseRef(u), UseValue(u)) # {} =>
                /\ DictHas(UseRecord(u), UseRef(u).target_column)
                /\ DictGet(UseRecord(u), UseRef(u).target_column, NONE)
                      \in ReferentIds(schema, UseRef(u), UseValue(u))

\* the values a record holds under the columns of its seed's unique key
NaturalKey(seed_def, record) ==
    [k \in 1..Len(seed_def.unique_key.cols) |->
        DictGet(record, seed_def.unique_key.cols[k], NONE)]

\* C2: the identifier of a record without explicit id is a function of the table
\* name and the record's natural-key values only: two records of one table with
\* the same natural key get the same identifier, whatever their positions.
C2_IdIsFunctionOfKey ==
    pc = "resolved" =>
        \A n \in 1..Len(input.seeds) :
            \A r1, r2 \in 1..Len(input.seeds[n][2].records) :
                LET seed_def == input.seeds[n][2]
                    now == schema.seeds[n][2].records
                IN  (/\ ~DictHas(seed_def.records[r1], "id")
                     /\ ~DictHas(seed_def.records[r2], "id")
                     /\ NaturalKey(seed_def, seed_def.records[r1])
                           = NaturalKey(seed_def, seed_def.records[r2]))
                    => DictGet(now[r1], "id", NONE) = DictGet(now[r2], "id", NONE)

IndexOf(sq, x) == CHOOSE n \in 1..Len(sq) : sq[n] = x

\* the emitted statement of a table, as a set (empty when none was emitted)
Statements(table_name) == {n \in 1..Len(out) : out[n].table = table_name}

\* C4: a reference whose value matches no seeded record of ref_table leaves the
\* target column present with the value NULL, in the resolved record and in the
\* emitted row.
C4_UnresolvedIsNull ==
    /\ pc = "resolved" =>
          \A u \in DeclaredUses :
              Referents(input, UseRef(u), UseValue(u)) = {} =>
                  /\ DictHas(UseRecord(u), UseRef(u).target_column)
                  /\ DictGet(UseRecord(u), UseRef(u).target_column, <<"absent">>) = NONE
    /\ pc = "done" =>
          \A u \in DeclaredUses : \A n \in Statements(UseTable(u)) :
              (/\ DictHas(UseRecord(u), UsePseudo(u))
               /\ Referents(schema, UseRef(u), UseValue(u)) = {}) =>
                  /\ InSeq(out[n].cols, UseRef(u).target_column)
                  /\ out[n].rows[u[2]][IndexOf(out[n].cols, UseRef(u).target_column)]
                        = <<"NULL">>

\* C5: after resolve_seed_references no record holds a key that its seed's
\* references mapping declares as a pseudo-field.
C5_NoPseudoFieldLeft ==
    pc = "resolved" =>
        \A n \in 1..Len(schema.seeds) :
            \A r \in 1..Len(schema.seeds[n][2].records),
               k \in 1..Len(schema.seeds[n][2].references) :
                ~DictHas(schema.seeds[n][2].records[r], schema.seeds[n][2].references[k][1])

\* value occurs in the lookup key
Mentions(lookup_key, value) ==
    \E a \in 1..Len(lookup_key) :
        a + Len(value) - 1 <= Len(lookup_key)
        /\ SubSeq(lookup_key, a, a + Len(value) - 1) = value

\* the lookup finds id by column a alone, by column b alone and by a key that
\* combines both values
FoundThreeWays(lookup, a, b, record, id) ==
    LET va == DictGet(record, a, NONE)
        vb == DictGet(record, b, NONE)
    IN  /\ DictGet(lookup, ColEquals(a, va), NONE) = id
        /\ DictGet(lookup, ColEquals(b, vb), NONE) = id
        /\ \E n \in 1..Len(lookup) :
              /\ lookup[n][2] = id
              /\ Mentions(lookup[n][1], va) /\ Mentions(lookup[n][1], vb)

\* the seeds whose unique key is a list of two columns, with the records that
\* hold a value under both
CompositeRecords(sch) ==
    {nr \in UNION {{<<n, r>> : r \in 1..Len(sch.seeds[n][2].records)} :
                   n \in 1..Len(sch.seeds)} :
        LET seed_def == sch.seeds[nr[1]][2]
        IN  /\ seed_def.unique_key.kind = "list"
            /\ Len(seed_def.unique_key.cols) = 2
            /\ \A k \in 1..2 :
                  Truthy(DictGet(seed_def.records[nr[2]], seed_def.unique_key.cols[k], NONE))}

\* C6: for a seed with unique_key (a, b) the lookup built in the first pass
\* returns a record's identifier by a alone, by b alone and by the combined key.
C6_CompositeLookup ==
    /\ pc \in {"pass2_sections", "pass2_exercises", "resolved"} =>
          \A nr \in CompositeRecords(schema) :
              LET seed_def == schema.seeds[nr[1]][2]
                  record == seed_def.records[nr[2]]
              IN  DictHas(lookup_tables, schema.seeds[nr[1]][1]) =>
                      FoundThreeWays(DictGet(lookup_tables, schema.seeds[nr[1]][1], << >>),
                                     seed_def.unique_key.cols[1], seed_def.unique_key.cols[2],
                                     record, DictGet(record, "id", NONE))
    /\ pc \in {"emit", "done"} =>
          \A nr \in CompositeRecords(schema) :
              LET seed_def == schema.seeds[nr[1]][2]
                  record == seed_def.records[nr[2]]
              IN  DictHas(gen_lookup, schema.seeds[nr[1]][1]) =>
                      FoundThreeWays(DictGet(gen_lookup, schema.seeds[nr[1]][1], << >>),
                                     seed_def.unique_key.cols[1], seed_def.unique_key.cols[2],
                                     record,
                                     GenRecordId(schema.seeds[nr[1]][1], record, nr[2] - 1))

\* the records of the loaded document that supply an explicit id
ExplicitRecords ==
    {nr \in UNION {{<<n, r>> : r \in 1..Len(input.seeds[n][2].records)} :
                   n \in 1..Len(input.seeds)} :
        DictHas(input.seeds[nr[1]][2].records[nr[2]], "id")}

\* C7: a record that supplies an explicit id keeps it, the lookup entries of its
\* key columns point at it, and the dependents that reference the record (and no
\* other record) receive it in their target column.
C7_ExplicitIdKept ==
    pc = "resolved" =>
        \A nr \in ExplicitRecords :
            LET table_name == input.seeds[nr[1]][1]
                seed_def == input.seeds[nr[1]][2]
                record == seed_def.records[nr[2]]
                id == DictGet(record, "id", NONE)
            IN  /\ DictGet(schema.seeds[nr[1]][2].records[nr[2]], "id", NONE) = id
                /\ \A u \in DeclaredUses :
                      (/\ UseRef(u).ref_table = table_name
                       /\ Referents(input, UseRef(u), UseValue(u)) = {nr[2]})
                      => DictGet(UseRecord(u), UseRef(u).target_column, NONE) = id
                /\ DictHas(lookup_tables, table_name) =>
                      \A k \in 1..Len(seed_def.unique_key.cols) :
                          LET col == seed_def.unique_key.cols[k]
                              lookup == DictGet(lookup_tables, table_name, << >>)
                              stored == IF seed_def.unique_key.kind = "list"
                                        THEN ColEquals(col, DictGet(record, col, NONE))
                                        ELSE DictGet(record, col, NONE)
                          IN  (/\ Truthy(DictGet(record, col, NONE))
                               /\ \A q \in 1..Len(seed_def.records) :
                                     q # nr[2] => DictGet(seed_def.records[q], col, NONE)
                                                     # DictGet(record, col, NONE))
                              => DictGet(lookup, stored, NONE) = id

\* the SQL texts of the identifiers the emitter gives the records of
\* ref.ref_table that hold value under ref.ref_column
EmittedReferentIds(ref, value) ==
    {format_sql_value(GenRecordId(ref.ref_table, RecordsOf(schema, ref.ref_table)[q], q - 1)) :
        q \in Referents(schema, ref, value)}

\* C8: the INSERT of a seed that declares a reference lists the reference's
\* target_column and never the pseudo-field, and a row whose record names a
\* seeded referent carries the referent's identifier under target_column.
C8_InsertListsTarget ==
    pc = "done" =>
        \A n \in 1..Len(out) :
            LET seed_def == SeedDef(schema, out[n].table)
            IN  \A k \in 1..Len(seed_def.references) :
                    LET pseudo == seed_def.references[k][1]
                        ref == seed_def.references[k][2]
                    IN  /\ InSeq(out[n].cols, ref.target_column)
                        /\ ~InSeq(out[n].cols, pseudo)
                        /\ \A r \in 1..Len(seed_def.records) :
                              (/\ DictHas(seed_def.records[r], pseudo)
                               /\ Referents(schema, ref,
                                            DictGet(seed_def.records[r], pseudo, NONE)) # {})
                              => out[n].rows[r][IndexOf(out[n].cols, ref.target_column)]
                                    \in EmittedReferentIds(ref,
                                            DictGet(seed_def.records[r], pseudo, NONE))

\* every record of every seed holds an id
AllRecordsHaveId ==
    \A n \in 1..Len(schema.seeds) :
        \A r \in 1..Len(schema.seeds[n][2].records) :
            DictHas(schema.seeds[n][2].records[r], "id")

\* a step of a run changes no id that a record holds
IdsKept ==
    \A n \in 1..Len(schema.seeds) :
        \A r \in 1..Len(schema.seeds[n][2].records) :
            DictHas(schema.seeds[n][2].records[r], "id") =>
                /\ DictHas(schema'.seeds[n][2].records[r], "id")
                /\ DictGet(schema'.seeds[n][2].records[r], "id", NONE)
                      = DictGet(schema.seeds[n][2].records[r], "id", NONE)

\* C9: when resolution returns every record of every seeded table carries an
\* identifier, and no step of the run changes an identifier a record carries.
C9_EveryRecordHasId ==
    [][/\ pc' = "resolved" => AllRecordsHaveId'
       /\ run' = run => IdsKept]_vars

\* the violations of a document, as the entries validate_schema reports them by
Violations(sch) ==
    {<<"missing version">> : x \in {1} \ {IF sch.has_version THEN 1 ELSE 0}}
    \cup {<<"missing tables">> : x \in {1} \ {IF sch.has_tables THEN 1 ELSE 0}}
    \cup {<<"missing type_mappings">> : x \in {1} \ {IF sch.has_type_mappings THEN 1 ELSE 0}}
    \cup {<<"missing fields", sch.tables[t][1]>> :
            t \in {t \in 1..Len(sch.tables) : ~sch.tables[t][2].has_fields}}
    \cup UNION {{<<"unknown type", sch.tables[t][1], sch.tables[t][2].fields[f][1],
                   sch.tables[t][2].fields[f][2].type>> :
                    f \in {f \in 1..Len(sch.tables[t][2].fields) :
                            /\ sch.has_type_mappings
                            /\ sch.tables[t][2].fields[f][2].has_type
                            /\ ~DictHas(sch.type_mappings,
                                        sch.tables[t][2].fields[f][2].type)}} :
                t \in {t \in 1..Len(sch.tables) : sch.tables[t][2].has_fields}}
    \cup {<<"table not found", sch.seeds[n][1]>> :
            n \in {n \in 1..Len(sch.seeds) :
                     sch.has_tables /\ ~DictHas(sch.tables, sch.seeds[n][1])}}
    \cup UNION {UNION {{<<"column not in table", sch.seeds[n][1], sch.seeds[n][2].records[r][c][1]>> :
                          c \in {c \in 1..Len(sch.seeds[n][2].records[r]) :
                                  /\ ~DictHas(sch.seeds[n][2].references,
                                              sch.seeds[n][2].records[r][c][1])
                                  /\ ~DictHas(DictGet(sch.tables, sch.seeds[n][1], NONE).fields,
                                              sch.seeds[n][2].records[r][c][1])}} :
                       r \in 1..Len(sch.seeds[n][2].records)} :
                n \in {n \in 1..Len(sch.seeds) :
                         /\ DictHas(sch.tables, sch.seeds[n][1])
                         /\ DictGet(sch.tables, sch.seeds[n][1], NONE).has_fields}}

\* C10: the list validate_schema returns holds an entry for every violation of
\* the document, not only for the first one met.
C10_AllViolationsReported ==
    pc \in {"exit1", "validated"} =>
        \A v \in Violations(schema) : InSeq(errors.list, v)

----------------------------------------------------------------------------
(* Properties of the validator and of main. *)

\* the fields of the tables of a document, as <<table index, field index>>
FieldsOf(sch) ==
    UNION {{<<t, f>> : f \in 1..Len(sch.tables[t][2].fields)} : t \in 1..Len(sch.tables)}

\* the list names field f of table t
NamesField(list, sch, tf) ==
    \E e \in 1..Len(list) :
        /\ Len(list[e]) >= 3
        /\ list[e][2] = sch.tables[tf[1]][1]
        /\ list[e][3] = sch.tables[tf[1]][2].fields[tf[2]][1]

\* C11: when validate_schema has returned, every field of every table either has a
\* native type for rust, typescript and postgres in type_mappings, or is named by
\* an entry of the returned list.
C11_TypesMappedOrReported ==
    (pc \in {"validated", "exit1"} /\ errors.bound) =>
        \A tf \in FieldsOf(schema) :
            \/ \A language \in {"rust", "typescript", "postgres"} :
                  NativeType(schema.type_mappings,
                             schema.tables[tf[1]][2].fields[tf[2]][2], language) # NONE
            \/ NamesField(errors.list, schema, tf)

\* the destination files of generate_all's main
Destinations(files) ==
    [rust |-> files.rust, ts |-> files.ts, sql |-> files.sql, seeds |-> files.seeds,
     archive |-> files.archive]

\* C12: a step of main changes a destination file only after validate_schema has
\* returned an empty list, and never in validate-only or dry-run mode; a run whose
\* input file is missing or whose validation returned errors ends with exit code 1
\* and the destination files as it found them, and so does a validate-only or
\* dry-run run (with exit code 0).
C12_NoWriteBeforeValidation ==
    [][/\ Destinations(fs') # Destinations(fs) =>
             /\ errors.bound /\ ~errors.raised /\ errors.list = << >>
             /\ ~args.validate /\ ~args.dry_run
       /\ (~exists' \/ Len(errors'.list) > 0) =>
             pc' \in {"main", "exit1"}
       /\ pc' \in {"exit1", "returned"} => Destinations(fs') = Destinations(fs0')]_vars

\* a dry run has generated the contents and returned, the old files untouched
C12_Witness ==
    /\ pc = "returned" /\ args.dry_run /\ ~args.validate
    /\ gen.rust # NONE /\ gen.seeds # NONE
    /\ fs = Files(OLD)

\* C13: when a run aborts inside the write steps, every destination file holds
\* either its complete new content or exactly what it held before the run.
C13_AtomicTargets ==
    pc = "aborted" =>
        \A target \in {"rust", "ts", "sql", "seeds"} :
            fs[target] = fs0[target] \/ fs[target] = gen[target]

\* C14: a second run on the same document, on the same or on another day, generates
\* the same four contents as the first.
C14_RunsAgreeAcrossDays ==
    (run > 1 /\ pc \in {"done", "finished"}) => gen = prev

\* the position of table_name's INSERT in the emitted statements (0 when none)
InsertOf(table_name) ==
    LET hits == {n \in 1..Len(out) : out[n].table = table_name}
    IN  IF hits = {} THEN 0 ELSE CHOOSE n \in hits : \A m \in hits : n <= m

\* the seeded tables that have records
SeededTables == {t \in KeySet(schema.seeds) : Len(Records(schema, t)) > 0}

\* C15: the seed text has exactly one INSERT per seeded table that has records, the
\* INSERT of a referenced seeded table comes before the INSERT of every other seeded
\* table that declares a reference to it, and the tables of the resolver's first
\* pass come in the order of that pass.
C15_InsertOrder ==
    pc = "done" =>
        /\ \A t \in SeededTables : Cardinality({n \in 1..Len(out) : out[n].table = t}) = 1
        /\ \A n \in 1..Len(out) : out[n].table \in SeededTables
        /\ \A a \in SeededTables : \A k \in 1..Len(SeedDef(schema, a).references) :
              LET b == SeedDef(schema, a).references[k][2].ref_table
              IN  (b \in SeededTables /\ b # a) => InsertOf(b) < InsertOf(a)
        /\ \A i, j \in 1..Len(PASS1_ORDER) :
              (i < j /\ PASS1_ORDER[i] \in SeededTables /\ PASS1_ORDER[j] \in SeededTables)
                  => InsertOf(PASS1_ORDER[i]) < InsertOf(PASS1_ORDER[j])

\* the conflict target "(a, b)" of the columns of a unique key
ColumnList(cols) == <<"(">> \o Join(<<", ">>, [k \in 1..Len(cols) |-> <<cols[k]>>]) \o <<")">>

\* C16: every emitted INSERT ends with ON CONFLICT on the column names of the seed's
\* unique key: the one column of a str key, the columns of a list key in order,
\* separated by commas.
C16_ConflictTarget ==
    pc = "done" =>
        \A n \in 1..Len(out) :
            out[n].conflict = ColumnList(SeedDef(schema, out[n].table).unique_key.cols)

----------------------------------------------------------------------------
(* Properties of the struct, interface and DDL emitters. *)

\* the declaration of table_name in a generated module
DeclOf(text, table_name) ==
    text[2].decls[CHOOSE n \in 1..Len(text[2].decls) : text[2].decls[n].table = table_name]

\* generate_all has generated the three modules
Generated == gen.rust # NONE /\ gen.ts # NONE /\ gen.sql # NONE /\ pc # "printed"

\* C17: a nullable field is Option<T> in the Rust struct, name? in the TypeScript
\* interface and has no NOT NULL in the CREATE TABLE; a field that is neither
\* nullable nor primary has NOT NULL; a primary field has PRIMARY KEY and never
\* NOT NULL, whatever nullable says.
C17_NullableAndPrimary ==
    Generated =>
        \A tf \in FieldsOf(schema) :
            LET table_name == schema.tables[tf[1]][1]
                field_def == schema.tables[tf[1]][2].fields[tf[2]][2]
                rust == DeclOf(gen.rust, table_name).fields[tf[2]]
                ts == DeclOf(gen.ts, table_name).fields[tf[2]]
                sql == DeclOf(gen.sql, table_name).fields[tf[2]]
            IN  /\ field_def.nullable =>
                      /\ Head(rust.type) = "Option<"
                      /\ ts.name[Len(ts.name)] = "?"
                      /\ ~InSeq(sql.constraints, "NOT NULL")
                /\ (~field_def.nullable /\ ~field_def.primary) =>
                      InSeq(sql.constraints, "NOT NULL")
                /\ field_def.primary =>
                      /\ InSeq(sql.constraints, "PRIMARY KEY")
                      /\ ~InSeq(sql.constraints, "NOT NULL")

\* the modules are generated for a document with a field that is primary and
\* nullable and a field that is neither
C17_Witness ==
    /\ Generated
    /\ \E tf \in FieldsOf(schema) :
          LET field_def == schema.tables[tf[1]][2].fields[tf[2]][2]
          IN  field_def.primary /\ field_def.nullable
    /\ \E tf \in FieldsOf(schema) :
          LET field_def == schema.tables[tf[1]][2].fields[tf[2]][2]
          IN  ~field_def.primary /\ ~field_def.nullable

\* reserved words of Rust among the field names of the documents: those the
\* generator lists, and enum
ReservedWords == RUST_KEYWORDS \cup {"enum"}

\* C18: in every generated Rust declaration a field whose name is a reserved word
\* is written r#name and any other field is written as it is; the SQL column and
\* the TypeScript member keep the name as it is.
C18_ReservedEscaped ==
    (gen.rust # NONE /\ gen.ts # NONE /\ gen.sql # NONE) =>
        \A tf \in FieldsOf(schema) :
            LET table_name == schema.tables[tf[1]][1]
                field_name == schema.tables[tf[1]][2].fields[tf[2]][1]
            IN  /\ DeclOf(gen.rust, table_name).fields[tf[2]].name
                      = IF field_name \in ReservedWords
                        THEN <<"r#", field_name>> ELSE <<field_name>>
                /\ DeclOf(gen.sql, table_name).fields[tf[2]].name = <<field_name>>
                /\ Head(DeclOf(gen.ts, table_name).fields[tf[2]].name) = field_name

\* the workout_sections records of a document
SectionsOf(sch) ==
    IF DictHas(sch.seeds, "workout_sections") THEN Records(sch, "workout_sections") ELSE << >>

\* the sections with the name and the workout of a record
JoinMatches(sections, section_name, workout_id) ==
    {n \in 1..Len(sections) :
        /\ DictGet(sections[n], "name", NONE) = section_name
        /\ DictGet(sections[n], "workout_id", NONE) = workout_id}

\* C19: when the exercises are scanned every workout_sections record has been
\* through its own resolution; after resolution an exercise record whose
\* workout_name resolved to w and whose section_name was s has as section_id the
\* id of a section with name s and workout_id w if there is one, has none
\* otherwise, and never has the id of a section of that name of another workout.
C19_SectionJoin ==
    /\ pc = "pass2_exercises" =>
          \A n \in 1..Len(SectionsOf(schema)) :
              ~DictHas(SectionsOf(schema)[n], "workout_name")
    /\ (pc = "resolved" /\ DictHas(schema.seeds, "workout_exercises")) =>
          \A r \in 1..Len(Records(schema, "workout_exercises")) :
              LET before == Records(input, "workout_exercises")[r]
                  after == Records(schema, "workout_exercises")[r]
                  sections == SectionsOf(schema)
                  s == DictGet(before, "section_name", NONE)
                  w == DictGet(after, "workout_id", NONE)
                  matches == JoinMatches(sections, s, w)
              IN  (/\ DictHas(before, "section_name") /\ DictHas(before, "workout_name")
                   /\ DictHas(after, "workout_id")) =>
                      /\ matches # {} =>
                            \E n \in matches :
                                DictGet(after, "section_id", NONE)
                                    = DictGet(sections[n], "id", NONE)
                      /\ matches = {} => ~DictHas(after, "section_id")
                      /\ \A n \in 1..Len(sections) :
                            (/\ DictGet(sections[n], "name", NONE) = s
                             /\ DictGet(sections[n], "workout_id", NONE) # w) =>
                                DictGet(after, "section_id", NONE)
                                    # DictGet(sections[n], "id", NONE)

\* an exercise joined to its section although a section of the same name of
\* another workout comes first
C19_Witness ==
    /\ pc = "resolved" /\ DictHas(schema.seeds, "workout_exercises")
    /\ \E r \in 1..Len(Records(schema, "workout_exercises")) :
          LET before == Records(input, "workout_exercises")[r]
              after == Records(schema, "workout_exercises")[r]
              sections == SectionsOf(schema)
              s == DictGet(before, "section_name", NONE)
          IN  /\ DictHas(before, "section_name") /\ DictHas(after, "section_id")
              /\ Len(sections) = 2
              /\ DictGet(sections[1], "name", NONE) = s
              /\ DictGet(sections[1], "workout_id", NONE) # DictGet(after, "workout_id", NONE)
              /\ DictGet(sections[2], "id", NONE) = DictGet(after, "section_id", NONE)

\* C20: in the emitted rows, a record that holds a value under the target column
\* of a reference and does not hold the reference's pseudo-field has that value,
\* formatted, in the target column.
C20_ResolvedIdentifiersEmitted ==
    pc = "done" =>
        \A n \in 1..Len(out) :
            LET seed_def == SeedDef(schema, out[n].table)
            IN  \A r \in 1..Len(seed_def.records) : \A c \in 1..Len(out[n].cols) :
                    \A k \in 1..Len(seed_def.references) :
                        (/\ seed_def.references[k][2].target_column = out[n].cols[c]
                         /\ out[n].cols[c] \notin {"id", "created_at", "updated_at"}
                         /\ ~DictHas(seed_def.records[r], seed_def.references[k][1])
                         /\ DictHas(seed_def.records[r], out[n].cols[c])) =>
                            out[n].rows[r][c]
                                = format_sql_value(DictGet(seed_def.records[r],
                                                           out[n].cols[c], NONE))

----------------------------------------------------------------------------
(* Properties of the emitted rows. *)

\* C21: every value other than NULL that an emitted row carries in the target
\* column of a reference is a value that a row of the referenced table carries in
\* its id column.
C21_ForeignKeysPointAtRows ==
    pc = "done" =>
        \A n \in 1..Len(out) :
            LET seed_def == SeedDef(schema, out[n].table)
            IN  \A k \in 1..Len(seed_def.references) :
                    \A c \in 1..Len(out[n].cols) : \A r \in 1..Len(out[n].rows) :
                        (/\ out[n].cols[c] = seed_def.references[k][2].target_column
                         /\ out[n].cols[c] \notin {"id", "created_at", "updated_at"}
                         /\ out[n].rows[r][c] # <<"NULL">>) =>
                            \E m \in 1..Len(out) : \E q \in 1..Len(out[m].rows) :
                                /\ out[m].table = seed_def.references[k][2].ref_table
                                /\ InSeq(out[m].cols, "id")
                                /\ out[m].rows[q][IndexOf(out[m].cols, "id")]
                                      = out[n].rows[r][c]

\* the declared field names of a table, in declaration order
DeclaredNames(table_name) == DictKeys(DictGet(schema.tables, table_name, NONE).fields)

\* C22: the column list of every emitted INSERT is the columns id, created_at,
\* updated_at that the table declares, in this order, followed by its other
\* columns in the order the table declares its fields; it lists no reference
\* pseudo-field and no column twice.
C22_ColumnOrder ==
    pc = "done" =>
        \A n \in 1..Len(out) :
            LET cols == out[n].cols
                listed == {cols[c] : c \in 1..Len(cols)}
                declared == DeclaredNames(out[n].table)
                references == SeedDef(schema, out[n].table).references
            IN  /\ cols = SelectSeq(AUTO_COLS, LAMBDA a : InSeq(declared, a))
                          \o SelectSeq(declared,
                                       LAMBDA f : ~InSeq(AUTO_COLS, f) /\ f \in listed)
                /\ \A k \in 1..Len(references) : references[k][1] \notin listed

\* the target columns of the references of a seed
TargetColumns(seed_def) ==
    {seed_def.references[k][2].target_column : k \in 1..Len(seed_def.references)}

\* C23: every emitted row has as many values as its INSERT has columns, and every
\* value a record supplies for a field of its table (other than the auto-managed
\* columns and the reference columns) is in the record's row, under that column.
C23_NoSeededValueLost ==
    pc = "done" =>
        \A n \in 1..Len(out) :
            LET seed_def == SeedDef(schema, out[n].table)
                declared == DeclaredNames(out[n].table)
            IN  /\ Len(out[n].rows) = Len(seed_def.records)
                /\ \A r \in 1..Len(seed_def.records) :
                      /\ Len(out[n].rows[r]) = Len(out[n].cols)
                      /\ \A c \in 1..Len(seed_def.records[r]) :
                            LET col == seed_def.records[r][c][1]
                            IN  (/\ InSeq(declared, col) /\ ~InSeq(AUTO_COLS, col)
                                 /\ col \notin TargetColumns(seed_def)
                                 /\ ~DictHas(seed_def.references, col)) =>
                                    /\ InSeq(out[n].cols, col)
                                    /\ out[n].rows[r][IndexOf(out[n].cols, col)]
                                          = format_sql_value(seed_def.records[r][c][2])

----------------------------------------------------------------------------
(* Properties of format_sql_value. *)

\* every single quote of a text is one of a pair of adjacent single quotes
RECURSIVE QuotesDoubled(_)
QuotesDoubled(text) ==
    IF Len(text) = 0 THEN TRUE
    ELSE IF Head(text) = "'"
         THEN Len(text) >= 2 /\ text[2] = "'" /\ QuotesDoubled(SubSeq(text, 3, Len(text)))
         ELSE QuotesDoubled(Tail(text))

\* a text with every single quote doubled
Doubled(text) == Replace(text, <<"'">>, <<"'", "'">>)

\* the text between the first and the last character
Inner(text) == SubSeq(text, 2, Len(text) - 1)

\* C24: format_sql_value returns NULL for None, true or false for a bool, the
\* number's own text for a number, and for every other value a text in single
\* quotes whose inside has single quotes only in doubled pairs: the value with its
\* quotes doubled for a str, the JSON text with its quotes doubled for a dict.
C24_LiteralRules ==
    pc = "formatted" =>
        /\ KindOf(val) = "None" => literal = <<"NULL">>
        /\ KindOf(val) = "<bool>" =>
              literal = (IF val[2] = "True" THEN <<"true">> ELSE <<"false">>)
        /\ KindOf(val) = "<number>" => literal = <<val[2]>>
        /\ KindOf(val) \in {"str", "<dict>", "<list>"} =>
              /\ Len(literal) >= 2
              /\ Head(literal) = "'" /\ literal[Len(literal)] = "'"
              /\ QuotesDoubled(Inner(literal))
        /\ KindOf(val) = "str" => Inner(literal) = Doubled(val)
        /\ KindOf(val) = "<dict>" => Inner(literal) = Doubled(json_dumps(val))

----------------------------------------------------------------------------
(* Properties of the resolver as a function of its argument. *)

\* C25: when resolve_seed_references returns, the object it was called with
\* (schema: the records are assigned and deleted in it, and it is the object
\* returned) has the seeds it had when the call began (input), every record with
\* its pseudo-fields and with no added id or target column, and the same version,
\* tables and type_mappings.
C25_ArgumentUnchanged ==
    pc = "resolved" =>
        /\ schema.has_version = input.has_version
        /\ schema.tables = input.tables
        /\ schema.type_mappings = input.type_mappings
        /\ \A n \in 1..Len(input.seeds) : \A r \in 1..Len(input.seeds[n][2].records) :
              LET before == input.seeds[n][2].records[r]
                  after == schema.seeds[n][2].records[r]
              IN  /\ \A k \in 1..Len(input.seeds[n][2].references) :
                        DictHas(before, input.seeds[n][2].references[k][1])
                            => DictHas(after, input.seeds[n][2].references[k][1])
                  /\ KeySet(after) \subseteq KeySet(before)

\* C26: a call of the resolver on the schema its previous call returned changes
\* nothing: every id, every target column and the keys of every record stay.
C26_Idempotent ==
    (run > 1 /\ pc = "resolved" /\ input = first) => schema = input

\* a second call on a schema whose first call resolved a workout and a section
C26_Witness ==
    /\ run > 1 /\ pc = "resolved" /\ input = first
    /\ DictHas(schema.seeds, "workout_exercises")
    /\ \E r \in 1..Len(Records(schema, "workout_exercises")) :
          /\ DictHas(Records(schema, "workout_exercises")[r], "workout_id")
          /\ DictHas(Records(schema, "workout_exercises")[r], "section_id")
          /\ Len(DictGet(Records(schema, "workout_exercises")[r], "id", NONE)) > 1

\* C27: within one seeded table, two records without explicit id whose natural
\* keys differ do not receive the same identifier.
C27_DistinctKeysDistinctIds ==
    (pc = "resolved" /\ run = 1) =>
        \A n \in 1..Len(input.seeds) :
            \A r1, r2 \in 1..Len(input.seeds[n][2].records) :
                LET seed_def == input.seeds[n][2]
                    now == schema.seeds[n][2].records
                IN  (/\ ~DictHas(seed_def.records[r1], "id")
                     /\ ~DictHas(seed_def.records[r2], "id")
                     /\ DictHas(now[r1], "id") /\ DictHas(now[r2], "id")
                     /\ NaturalKey(seed_def, seed_def.records[r1])
                           # NaturalKey(seed_def, seed_def.records[r2]))
                    => DictGet(now[r1], "id", NONE) # DictGet(now[r2], "id", NONE)

\* the records of a seed with the same value under a key column as a record
SameKeyValue(seed_def, col, record) ==
    {q \in 1..Len(seed_def.records) :
        DictGet(seed_def.records[q], col, NONE) = DictGet(record, col, NONE)}

\* C28: for a seed of the resolver's tables and a record without explicit id, the
\* identifier that the first pass of generate_seeds stores in its lookup under
\* the record's key is the identifier that resolve_seed_references assigns to the
\* record, for a str and for a list unique key.
C28_DerivationsAgree ==
    (pc \in {"emit", "done"} /\ run = 1 /\ schema = input) =>
        \A n \in 1..Len(schema.seeds) :
            LET table_name == schema.seeds[n][1]
                seed_def == schema.seeds[n][2]
            IN  InSeq(PASS1_ORDER, table_name) =>
                    \A r \in 1..Len(seed_def.records) :
                        \A k \in 1..Len(seed_def.unique_key.cols) :
                            LET record == seed_def.records[r]
                                col == seed_def.unique_key.cols[k]
                            IN  (/\ ~DictHas(record, "id")
                                 /\ Truthy(DictGet(record, col, NONE))
                                 /\ SameKeyValue(seed_def, col, record) = {r}) =>
                                    DictGet(DictGet(gen_lookup, table_name, << >>),
                                            ColEquals(col, DictGet(record, col, NONE)),
                                            NONE)
                                      = DictGet(AssignId(table_name, seed_def.unique_key,
                                                         record, r - 1), "id", NONE)

----------------------------------------------------------------------------
(* Properties of validate_schema as a total function. *)

\* C29: validate_schema raises on no document, it returns a list, and the list it
\* returns is empty only when the document has no violation.
C29_ValidateNeverRaises ==
    /\ ~errors.raised
    /\ (errors.bound /\ errors.list = << >>) => Violations(schema) = {}

----------------------------------------------------------------------------
(* Properties of the grouping by domain. *)

\* the tables the declarations of a generated module name, in the order of the text
DeclaredTables(text) ==
    [n \in 1..Len(text[2].tracking) |-> text[2].tracking[n].table]
    \o [n \in 1..Len(text[2].decls) |-> text[2].decls[n].table]

\* one declaration per table of the schema, the tables of one domain together
\* and in ascending order of their names
GroupedAndSorted(names) ==
    /\ \A t \in 1..Len(schema.tables) :
          Cardinality({n \in 1..Len(names) : names[n] = schema.tables[t][1]}) = 1
    /\ \A i, j \in 1..Len(names) :
          (i < j /\ get_domain_for_table(names[i]) = get_domain_for_table(names[j])) =>
              /\ NameLess(names[i], names[j])
              /\ \A m \in i..j :
                    get_domain_for_table(names[m]) = get_domain_for_table(names[i])

\* C30: each generated module declares every table of the schema exactly once,
\* the tables of one domain (or of "other") next to each other and in ascending
\* order of their names, whatever the order of the tables in the document.
C30_OneBucketSorted ==
    Generated =>
        /\ GroupedAndSorted(DeclaredTables(gen.rust))
        /\ GroupedAndSorted(DeclaredTables(gen.ts))
        /\ GroupedAndSorted(DeclaredTables(gen.sql))

====
